---- MODULE Spec2Model ----
(***************************************************************************)
(* A model of the PTY session manager of src-tauri/src/terminal.rs:        *)
(* TerminalManager (a mutex-guarded HashMap from id to TerminalHandle),    *)
(* its four operations, the reader thread started by create_terminal, and  *)
(* the child process and PTY streams the code talks to.                    *)
(***************************************************************************)
EXTENDS Integers, Sequences, FiniteSets, TLC

\* ---------------------------------------------------------------- bounds
\* A run follows a bounded number of command invocations and a bounded number
\* of bytes printed by each child.  Spec follows more calls and less output,
\* SpecIO fewer calls and more output, SpecFair fewer calls and less output.
\* Calls in a run that follows more calls.
MaxCalls == 3
\* Calls in a run that follows fewer calls.
MinCalls == 2
\* Bytes a child prints in a run that follows more output.
MaxOut == 2
\* Bytes a child prints in a run that follows less output.
MinOut == 1
\* PTYs (sessions) that create_terminal opens in one run.
MaxSessions == 2
\* Emits that the Event Sink fails to deliver, in a run that follows them.
MaxFails == 1
\* The same in a run where every emit is delivered.
MinFails == 0
\* let mut buf = [0u8; 8192]
BufLen == 8192

\* ---------------------------------------------------------------- inputs
Ids == {"t1", "t2"}
Threads == {"a", "b"}
Sessions == 1..MaxSessions
\* Payloads of write_terminal (data.as_bytes()).
Payloads == {<<"x", "y">>, <<"p">>}
\* Bytes a child may print: the two bytes of U+00E9 (0xC3 0xA9), each of
\* which alone is an invalid UTF-8 sequence.
OutBytes == {195, 169}
\* u16 arguments of resize_terminal.
Dims == {0, 80, 65535}
\* Exit codes of the child (status.exit_code()).
ExitCodes == {0}
CreateErrors == {"OpenPtyFailed", "SpawnFailed", "CloneReaderFailed", "TakeWriterFailed"}

NoThread == "none"
NoCall == [id |-> "none", s |-> 0, data |-> <<>>, pos |-> 0, start |-> 0, seen |-> FALSE]
NoResult == [op |-> "none", id |-> "none", res |-> "none", val |-> "none"]

VARIABLES
    terminals,  \* self.terminals: id -> the session whose writer the entry holds
    lock,       \* the thread holding the Mutex, or NoThread
    pc,         \* per caller thread: "idle", "inserting" (create), "writing" (write)
    call,       \* per caller thread: the arguments and progress of its call
    ret,        \* what the step just taken returned to its caller, if it returned
    nsess,      \* PTYs opened so far
    sid,        \* per session: terminal_id captured by its reader thread
    reuse,      \* per session: its id had been closed, and was not being created,
                \* when the create call that opened it started
    rstate,     \* per session: the reader thread's position
    child,      \* per session: "none", "running" or "exited"
    out,        \* per session: bytes the child printed that were not read yet
    produced,   \* per session: bytes printed so far
    input,      \* per session: bytes that arrived on the child's input
    events,     \* calls of app_handle.emit, in order, each with its result
    waitres,    \* per session: result of child.wait(): "none", "ok" or "err"
    closed,     \* ids whose last registry change was a successful close
    ncalls,     \* calls made so far
    budget      \* calls, bytes of output per child and failed emits that the
                \* run follows

vars == <<terminals, lock, pc, call, ret, nsess, sid, reuse, rstate, child,
          out, produced, input, events, waitres, closed, ncalls, budget>>

sessVars == <<nsess, sid, reuse, rstate, child, out, produced, waitres>>

\* ---------------------------------------------------------------- helpers
\* What a call returned: Ok(id) of create_terminal carries the id.
Result(o, i, r) ==
    [op |-> o, id |-> i, res |-> r,
     val |-> IF o = "create" /\ r = "Ok" THEN i ELSE "none"]

\* HashMap::get_mut(id).is_some()
Lookup(reg, id) == id \in DOMAIN reg

\* insert leaves a present key as it was.
RegInsertKeepsOld(reg, id, s) ==
    IF id \in DOMAIN reg THEN reg ELSE [k \in DOMAIN reg \cup {id} |-> IF k = id THEN s ELSE reg[k]]

\* insert forgets the other keys.
RegInsertOnly(reg, id, s) == [k \in {id} |-> s]

\* HashMap::insert(id, handle): a present key is overwritten.
RegInsert(reg, id, s) == [k \in DOMAIN reg \cup {id} |-> IF k = id THEN s ELSE reg[k]]

\* remove forgets to remove.
RegRemoveKeeps(reg, id) == reg

\* remove empties the map.
RegRemoveClears(reg, id) == <<>>

\* HashMap::remove(id)
RegRemove(reg, id) == [k \in DOMAIN reg \ {id} |-> reg[k]]

\* The Mutex does not exclude.
LockIgnored == TRUE

\* self.terminals.lock(): the Mutex is free.
LockFree == lock = NoThread

\* The guard is given up once the handle has been looked up.
GuardForLookup(t) == lock' = lock

\* let mut terminals = self.terminals.lock().unwrap(): the guard lives until
\* write_to_terminal returns.
HoldGuard(t) == lock' = t

\* The guard outlives the call.
KeepGuard == lock' = lock

\* The MutexGuard goes out of scope when the function returns, also through `?`.
DropGuard == lock' = NoThread

\* A missing id is silently accepted.
NotFoundIgnored(o, id) == Result(o, id, "Ok")

\* Err(format!("Terminal {} not found", id))
NotFound(o, id) == Result(o, id, "NotFound")

\* The writer of session s: held by the create call that has not registered
\* it yet, owned by the map, or dropped with the TerminalHandle.
WriterOf(s) ==
    IF s > nsess THEN "none"
    ELSE IF \E t \in Threads : pc[t] = "inserting" /\ call[t].s = s THEN "local"
    ELSE IF \E id \in DOMAIN terminals : terminals[id] = s THEN "registered"
    ELSE "dropped"

\* Removing the TerminalHandle stops the reader thread.
ReaderStoppedByClose(rs, reg, id) == [rs EXCEPT ![reg[id]] = "Exited"]

\* Removing the TerminalHandle drops its JoinHandle, which detaches the
\* reader thread: the thread goes on as it was.
ReaderAfterClose(rs, reg, id) == rs

\* The reader thread goes round its loop again after the wait.
InLoopOrAfter(s) == rstate[s] \in {"Reading", "Exited"}

\* The reader thread is inside its loop.
InLoop(s) == rstate[s] = "Reading"

\* No thread is spawned before the entry is inserted.
ReaderNotStarted(rs, s) == rs

\* std::thread::spawn(move || { loop { .. } .. }): the thread starts in its loop.
StartReader(rs, s) == [rs EXCEPT ![s] = "Reading"]

\* break ends the thread at once.
LeaveThread(rs, s) == [rs EXCEPT ![s] = "Exited"]

\* break takes every reader thread out of its loop.
LeaveAllLoops(rs, s) ==
    [x \in DOMAIN rs |-> IF rs[x] = "Reading" THEN "AwaitingExit" ELSE rs[x]]

\* break: the thread leaves its loop and goes on to child.wait().
LeaveLoop(rs, s) == [rs EXCEPT ![s] = "AwaitingExit"]

\* An emit that fails takes the thread out of its loop.
StopOnEmitError(rs, s, d) == IF d THEN rs ELSE [rs EXCEPT ![s] = "AwaitingExit"]

\* let _ = app_handle_clone.emit(..): the result is discarded and the thread
\* goes on as it was.
AfterEmit(rs, s, d) == rs

\* The step returns nothing to a caller.
Silent == ret' = NoResult /\ UNCHANGED budget

\* A command is invoked: the run follows budget.calls invocations.
Called == ncalls < budget.calls /\ ncalls' = ncalls + 1 /\ UNCHANGED budget

\* The state after TerminalManager::new(), for a run of budget b.
InitWith(b) ==
    /\ terminals = <<>>
    /\ lock = NoThread
    /\ pc = [t \in Threads |-> "idle"]
    /\ call = [t \in Threads |-> NoCall]
    /\ ret = NoResult
    /\ nsess = 0
    /\ sid = [s \in Sessions |-> "none"]
    /\ reuse = [s \in Sessions |-> FALSE]
    /\ rstate = [s \in Sessions |-> "NotStarted"]
    /\ child = [s \in Sessions |-> "none"]
    /\ out = [s \in Sessions |-> <<>>]
    /\ produced = [s \in Sessions |-> 0]
    /\ input = [s \in Sessions |-> <<>>]
    /\ events = <<>>
    /\ waitres = [s \in Sessions |-> "none"]
    /\ closed = {}
    /\ ncalls = 0
    /\ budget = b

Init == InitWith([calls |-> MaxCalls, out |-> MinOut, fails |-> MinFails])

Min(a, b) == IF a < b THEN a ELSE b

\* The event carries the whole buffer, not the n bytes read.
TakeAll(q, n) == q

Take(q, n) == SubSeq(q, 1, n)
Drop(q, n) == SubSeq(q, n + 1, Len(q))

\* String::from_utf8_lossy on the bytes the model uses: an ASCII byte is
\* itself, a two-byte lead (0xC2..0xDF) followed by a continuation byte
\* (0x80..0xBF) is one code point, any other byte becomes U+FFFD.
RECURSIVE Utf8Lossy(_)
Utf8Lossy(b) ==
    IF b = <<>> THEN <<>>
    ELSE IF b[1] < 128 THEN <<b[1]>> \o Utf8Lossy(Drop(b, 1))
    ELSE IF /\ b[1] >= 194 /\ b[1] <= 223
            /\ Len(b) >= 2 /\ b[2] >= 128 /\ b[2] <= 191
         THEN <<(b[1] - 192) * 64 + (b[2] - 128)>> \o Utf8Lossy(Drop(b, 2))
    ELSE <<65533>> \o Utf8Lossy(Drop(b, 1))

\* emit("terminal:data", TerminalData { id, data }); d is whether the Event
\* Sink took the event (emit returned Ok).
DataEvent(s, bytes, d) ==
    [kind |-> "data", id |-> sid[s], s |-> s, text |-> Utf8Lossy(bytes), code |-> 0,
     ok |-> d]

\* emit("terminal:exit", TerminalExit { id, exit_code })
ExitEvent(s, c, d) ==
    [kind |-> "exit", id |-> sid[s], s |-> s, text |-> <<>>, code |-> c, ok |-> d]

\* Emits that were not delivered so far.
Failed == Cardinality({i \in 1..Len(events) : ~events[i].ok})

\* The result of an emit: delivered, or failed in a run that follows failures.
Delivery(d) == d \/ Failed < budget.fails

\* terminal:exit is emitted whatever child.wait() returned.
EmitExitAlways(ev, s, ok, c, d) == Append(ev, ExitEvent(s, c, d))

\* if let Ok(status) = child.wait() { emit terminal:exit }
EmitExit(ev, s, ok, c, d) == IF ok THEN Append(ev, ExitEvent(s, c, d)) ELSE ev

\* --------------------------------------------------- create_terminal
\* The reader thread is spawned before the step that fails.
CreateFailLeavesReader(t, id, err) ==
    /\ pc[t] = "idle"
    /\ nsess < MaxSessions
    /\ nsess' = nsess + 1
    /\ sid' = [sid EXCEPT ![nsess + 1] = id]
    /\ child' = [child EXCEPT ![nsess + 1] = "running"]
    /\ rstate' = StartReader(rstate, nsess + 1)
    /\ ret' = Result("create", id, err)
    /\ Called
    /\ UNCHANGED <<terminals, lock, pc, call, reuse, out, produced, waitres,
                   input, events, closed>>

\* openpty, spawn_command, try_clone_reader or take_writer fails: `?` returns
\* the error before the reader thread is spawned and before the map is locked.
\* A child spawned before try_clone_reader or take_writer fails is left with
\* no reader thread and a PTY that is dropped: nothing reads what it prints.
CreateFail(t, id, err) ==
    /\ pc[t] = "idle"
    /\ ret' = Result("create", id, err)
    /\ Called
    /\ UNCHANGED <<terminals, lock, pc, call, sessVars, input, events,
                   closed>>

\* The PTY is opened, bash is spawned on its slave side, the reader and the
\* writer are obtained and the reader thread is spawned (lines 44-110).
CreateSpawn(t, id) ==
    /\ pc[t] = "idle"
    /\ nsess < MaxSessions
    /\ LET s == nsess + 1 IN
        /\ nsess' = s
        /\ sid' = [sid EXCEPT ![s] = id]
        /\ reuse' = [reuse EXCEPT ![s] =
                        /\ id \in closed
                        /\ \A u \in Threads : pc[u] = "inserting" => call[u].id # id]
        /\ child' = [child EXCEPT ![s] = "running"]
        /\ rstate' = StartReader(rstate, s)
        /\ call' = [call EXCEPT ![t] =
                    [NoCall EXCEPT !.id = id, !.s = s, !.seen = Lookup(terminals, id)]]
    /\ pc' = [pc EXCEPT ![t] = "inserting"]
    /\ Called
    /\ Silent
    /\ UNCHANGED <<terminals, lock, out, produced, input, events, waitres,
                   closed>>

\* self.terminals.lock().unwrap().insert(id.clone(), handle); Ok(id)
CreateInsert(t) ==
    /\ pc[t] = "inserting"
    /\ LockFree
    /\ LET id == call[t].id
           s == call[t].s IN
        /\ terminals' = RegInsert(terminals, id, s)
        /\ closed' = closed \ {id}
        /\ ret' = Result("create", id, "Ok")
    /\ pc' = [pc EXCEPT ![t] = "idle"]
    /\ call' = [call EXCEPT ![t] = NoCall]
    /\ UNCHANGED <<lock, sessVars, input, events, ncalls, budget>>

\* --------------------------------------------------- write_to_terminal
\* The map is locked and id is looked up; a missing id returns the
\* not-found error and the guard is dropped.
WriteBegin(t, id, data) ==
    /\ pc[t] = "idle"
    /\ LockFree
    /\ IF Lookup(terminals, id)
       THEN /\ HoldGuard(t)
            /\ pc' = [pc EXCEPT ![t] = "writing"]
            /\ call' = [call EXCEPT ![t] =
                        [id |-> id, s |-> terminals[id], data |-> data, pos |-> 0,
                         start |-> Len(input[terminals[id]]), seen |-> TRUE]]
            /\ Silent
       ELSE /\ ret' = NotFound("write", id)
            /\ UNCHANGED <<lock, pc, call>>
    /\ Called
    /\ UNCHANGED <<terminals, sessVars, input, events, closed>>

\* write_all hands the next byte to the PTY.
WriteByte(t) ==
    /\ pc[t] = "writing"
    /\ call[t].pos < Len(call[t].data)
    /\ input' = [input EXCEPT ![call[t].s] = Append(@, call[t].data[call[t].pos + 1])]
    /\ call' = [call EXCEPT ![t].pos = @ + 1]
    /\ Silent
    /\ UNCHANGED <<terminals, lock, pc, sessVars, events, closed, ncalls>>

\* write_all fails: map_err and `?` return, dropping the guard.
WriteAllFail(t) ==
    /\ pc[t] = "writing"
    /\ call[t].pos < Len(call[t].data)
    /\ ret' = Result("write", call[t].id, "WriteFailed")
    /\ DropGuard
    /\ pc' = [pc EXCEPT ![t] = "idle"]
    /\ call' = [call EXCEPT ![t] = NoCall]
    /\ UNCHANGED <<terminals, sessVars, input, events, closed, ncalls, budget>>

\* flush, then Ok(()) or the flush error; the guard is dropped.
WriteFlush(t, ok) ==
    /\ pc[t] = "writing"
    /\ call[t].pos = Len(call[t].data)
    /\ ret' = Result("write", call[t].id, IF ok THEN "Ok" ELSE "FlushFailed")
    /\ DropGuard
    /\ pc' = [pc EXCEPT ![t] = "idle"]
    /\ call' = [call EXCEPT ![t] = NoCall]
    /\ UNCHANGED <<terminals, sessVars, input, events, closed, ncalls, budget>>

\* --------------------------------------------------- resize_terminal
\* resize looks the id up.
ResizeChecksId(reg, id, cols, rows) == IF Lookup(reg, id) THEN "Ok" ELSE "NotFound"

\* Ok(()) whatever the arguments.
ResizeResult(reg, id, cols, rows) == "Ok"

Resize(t, id, cols, rows) ==
    /\ pc[t] = "idle"
    /\ ret' = Result("resize", id, ResizeResult(terminals, id, cols, rows))
    /\ Called
    /\ UNCHANGED <<terminals, lock, pc, call, sessVars, input, events,
                   closed>>

\* --------------------------------------------------- close_terminal
Close(t, id) ==
    /\ pc[t] = "idle"
    /\ LockFree
    /\ IF Lookup(terminals, id)
       THEN /\ terminals' = RegRemove(terminals, id)
            /\ rstate' = ReaderAfterClose(rstate, terminals, id)
            /\ closed' = closed \cup {id}
            /\ ret' = Result("close", id, "Ok")
       ELSE /\ ret' = NotFound("close", id)
            /\ UNCHANGED <<terminals, rstate, closed>>
    /\ Called
    /\ UNCHANGED <<lock, pc, call, nsess, sid, reuse, child, out, produced, waitres,
                   input, events>>

\* --------------------------------------------------- the reader thread
\* reader.read(&mut buf) returns Ok(n), n > 0: the chunk is decoded and emitted;
\* `let _ =` discards the result d of the emit and the loop goes round.
ReaderRead(s, n, d) ==
    /\ InLoop(s)
    /\ n >= 1 /\ n <= Min(BufLen, Len(out[s]))
    /\ Delivery(d)
    /\ events' = Append(events, DataEvent(s, Take(out[s], n), d))
    /\ rstate' = AfterEmit(rstate, s, d)
    /\ out' = [out EXCEPT ![s] = Drop(@, n)]
    /\ Silent
    /\ UNCHANGED <<terminals, lock, pc, call, nsess, sid, reuse,
                   child, produced, input, waitres, closed, ncalls>>

\* reader.read returns Ok(0): the slave side is closed and nothing is buffered.
ReaderEof(s) ==
    /\ InLoop(s)
    /\ child[s] = "exited"
    /\ out[s] = <<>>
    /\ rstate' = LeaveLoop(rstate, s)
    /\ Silent
    /\ UNCHANGED <<terminals, lock, pc, call, nsess, sid, reuse, child,
                   out, produced, input, events, waitres, closed, ncalls>>

\* reader.read returns Err(_): the loop is left just as on Ok(0).
ReaderErr(s) ==
    /\ InLoop(s)
    /\ rstate' = LeaveLoop(rstate, s)
    /\ Silent
    /\ UNCHANGED <<terminals, lock, pc, call, nsess, sid, reuse, child,
                   out, produced, input, events, waitres, closed, ncalls>>

\* child.wait() returns once the child has exited; only Ok(status) emits
\* terminal:exit, and the thread ends either way.
ReaderWait(s, ok, c, d) ==
    /\ rstate[s] = "AwaitingExit"
    /\ child[s] = "exited"
    /\ Delivery(d) /\ (~ok => d)
    /\ rstate' = [rstate EXCEPT ![s] = "Exited"]
    /\ waitres' = [waitres EXCEPT ![s] = IF ok THEN "ok" ELSE "err"]
    /\ events' = EmitExit(events, s, ok, c, d)
    /\ Silent
    /\ UNCHANGED <<terminals, lock, pc, call, nsess, sid, reuse, child,
                   out, produced, input, closed, ncalls>>

\* --------------------------------------------------- the child process
ChildOutput(s, b) ==
    /\ child[s] = "running"
    /\ produced[s] < budget.out
    /\ out' = [out EXCEPT ![s] = Append(@, b)]
    /\ produced' = [produced EXCEPT ![s] = @ + 1]
    /\ Silent
    /\ UNCHANGED <<terminals, lock, pc, call, nsess, sid, reuse, rstate,
                   child, input, events, waitres, closed, ncalls>>

ChildExit(s) ==
    /\ child[s] = "running"
    /\ child' = [child EXCEPT ![s] = "exited"]
    /\ Silent
    /\ UNCHANGED <<terminals, lock, pc, call, nsess, sid, reuse, rstate,
                   out, produced, input, events, waitres, closed, ncalls>>

Next ==
    \/ \E t \in Threads, id \in Ids, err \in CreateErrors : CreateFail(t, id, err)
    \/ \E t \in Threads, id \in Ids : CreateSpawn(t, id)
    \/ \E t \in Threads : CreateInsert(t)
    \/ \E t \in Threads, id \in Ids, data \in Payloads : WriteBegin(t, id, data)
    \/ \E t \in Threads : WriteByte(t)
    \/ \E t \in Threads : WriteAllFail(t)
    \/ \E t \in Threads, ok \in BOOLEAN : WriteFlush(t, ok)
    \/ \E t \in Threads, id \in Ids, cols \in Dims, rows \in Dims : Resize(t, id, cols, rows)
    \/ \E t \in Threads, id \in Ids : Close(t, id)
    \/ \E s \in Sessions, n \in 1..MaxOut, d \in BOOLEAN : ReaderRead(s, n, d)
    \/ \E s \in Sessions : ReaderEof(s)
    \/ \E s \in Sessions : ReaderErr(s)
    \/ \E s \in Sessions, ok \in BOOLEAN, c \in ExitCodes, d \in BOOLEAN :
            ReaderWait(s, ok, c, d)
    \/ \E s \in Sessions, b \in OutBytes : ChildOutput(s, b)
    \/ \E s \in Sessions : ChildExit(s)

Spec == Init /\ [][Next]_vars

\* A step of the reader thread of session s that the thread takes by itself
\* (a read error is the operating system's doing).
ReaderStep(s) ==
    \/ \E n \in 1..MaxOut, d \in BOOLEAN : ReaderRead(s, n, d)
    \/ ReaderEof(s)
    \/ \E ok \in BOOLEAN, c \in ExitCodes, d \in BOOLEAN : ReaderWait(s, ok, c, d)

\* The same program, followed for fewer calls and more output.
InitIO == InitWith([calls |-> MinCalls, out |-> MaxOut, fails |-> MinFails])

SpecIO == InitIO /\ [][Next]_vars

\* Each reader thread is an operating-system thread: it is scheduled as long
\* as it can take a step.  Followed for few calls and little output.
InitFair == InitWith([calls |-> MinCalls, out |-> MinOut, fails |-> MinFails])

SpecFair == InitFair /\ [][Next]_vars /\ \A s \in Sessions : WF_vars(ReaderStep(s))

\* The same program, followed for fewer calls, more output and emits that fail.
InitSink == InitWith([calls |-> MinCalls, out |-> MaxOut, fails |-> MaxFails])

SpecSink == InitSink /\ [][Next]_vars

\* ------------------------------------------------------------------ claims
\* A call of operation o on id returns in this step.
Returns(o, id) == ret'.op = o /\ ret'.id = id

SameRegistry == terminals' = terminals

\* C1 (as claimed): a create_terminal(id) that starts and registers while id is
\* registered does not return Ok, and the registry keeps the entry it had.
C1_DuplicateCreateRejected ==
    [][\A t \in Threads :
        (/\ pc[t] = "inserting" /\ pc'[t] = "idle"
         /\ call[t].seen
         /\ Lookup(terminals, call[t].id))
        => (ret'.res # "Ok" /\ SameRegistry)]_vars

\* C2: a write to an id that is not registered returns the not-found error,
\* writes no byte to any session and leaves the registry as it was.
C2_WriteMissingIsAtomic ==
    [][\A id \in Ids :
        (Returns("write", id) /\ ~Lookup(terminals, id))
        => (ret'.res = "NotFound" /\ input' = input /\ SameRegistry)]_vars

\* C2 witness: a write to an id that was created and closed was refused.
C2_Witness ==
    /\ ret.op = "write" /\ ret.res = "NotFound"
    /\ ret.id \in closed
    /\ \E s \in Sessions : sid[s] = ret.id

\* C3 (as claimed): after create(id) and close(id), with no create(id) since,
\* write(id), close(id) and resize(id) all return the not-found error.
C3_AllFailAfterClose ==
    [][\A id \in closed, o \in {"write", "close", "resize"} :
        Returns(o, id) => ret'.res = "NotFound"]_vars

\* C3 (amended): after create(id) and close(id), with no create(id) since,
\* write(id) and close(id) return the not-found error and resize(id) returns Ok.
C3_AfterClose ==
    [][\A id \in closed :
        /\ \A o \in {"write", "close"} : Returns(o, id) => ret'.res = "NotFound"
        /\ Returns("resize", id) => ret'.res = "Ok"]_vars

\* C3 witness: a resize of a created and closed id returned.
C3_Witness ==
    /\ ret.op = "resize"
    /\ ret.id \in closed
    /\ ~Lookup(terminals, ret.id)

\* C4: a close of a registered id returns Ok and removes that entry and no
\* other; a close of an id that is not registered, as after a close with no
\* create since, returns the not-found error and leaves the registry alone.
C4_CloseNotIdempotent ==
    [][\A id \in Ids : Returns("close", id) =>
        IF Lookup(terminals, id) /\ id \notin closed
        THEN /\ ret'.res = "Ok"
             /\ DOMAIN terminals' = DOMAIN terminals \ {id}
             /\ \A k \in DOMAIN terminals' : terminals'[k] = terminals[k]
             /\ id \in closed'
        ELSE /\ ret'.res = "NotFound"
             /\ SameRegistry]_vars

\* C4 witness: the second of two closes was refused while another id stayed
\* registered.
C4_Witness ==
    /\ ret.op = "close" /\ ret.res = "NotFound"
    /\ ret.id \in closed
    /\ closed # Ids

EventsOf(s, k) == {i \in 1..Len(events) : events[i].s = s /\ events[i].kind = k}

\* C5 (as claimed): no terminal:data event for an id follows a terminal:exit
\* event for that id.  Stated for the data events of sessions that were
\* created after their id had been closed, so that no create of an id that
\* is registered or is being created is involved.
C5_NoDataAfterExitOfId ==
    \A i, j \in 1..Len(events) :
        (/\ i < j /\ events[i].kind = "exit" /\ events[j].kind = "data"
         /\ reuse[events[j].s])
        => events[i].id # events[j].id

\* C5 (amended): no terminal:data event of a session follows the terminal:exit
\* event of that session.
C5_NoDataAfterExitOfSession ==
    \A i, j \in 1..Len(events) :
        (i < j /\ events[i].kind = "exit" /\ events[j].kind = "data")
        => events[i].s # events[j].s

\* C5 witness: a session emitted data and then its exit event.
C5_Witness ==
    \E s \in Sessions : \E i \in EventsOf(s, "data"), j \in EventsOf(s, "exit") : i < j

\* C6 (as claimed): a session never has two terminal:exit events, and one
\* whose reader thread has ended has exactly one.
C6_ExactlyOneExit ==
    \A s \in Sessions :
        /\ Cardinality(EventsOf(s, "exit")) <= 1
        /\ rstate[s] = "Exited" => Cardinality(EventsOf(s, "exit")) = 1

OneExitIfWaitOk ==
    \A s \in Sessions :
        /\ Cardinality(EventsOf(s, "exit")) <= 1
        /\ rstate[s] = "Exited" =>
            Cardinality(EventsOf(s, "exit")) = (IF waitres[s] = "ok" THEN 1 ELSE 0)
        /\ rstate[s] # "Exited" => EventsOf(s, "exit") = {}

\* C6 (amended): a session never has two terminal:exit events; once its child
\* has terminated its reader thread eventually ends, and a reader thread that
\* has ended has emitted exactly one terminal:exit if child.wait() returned Ok
\* and none if it returned an error.
C6_OneExitIfWaitOk ==
    /\ []OneExitIfWaitOk
    /\ \A s \in Sessions : (child[s] = "exited") ~> (rstate[s] = "Exited")

\* C6 witness: a reader thread ended after a successful wait, having emitted
\* data before.
C6_Witness ==
    \E s \in Sessions :
        /\ rstate[s] = "Exited" /\ waitres[s] = "ok"
        /\ EventsOf(s, "data") # {}
        /\ Cardinality(EventsOf(s, "exit")) = 1

IoErrors == {"WriteFailed", "FlushFailed"}

\* C7: a write that returns an I/O error leaves the registry as it was, with
\* the entry for its id in place, and leaves the Mutex free, so that a close
\* of that id can follow and succeed.
C7_WriteErrorKeepsEntry ==
    [][\A id \in Ids :
        (Returns("write", id) /\ ret'.res \in IoErrors)
        => /\ SameRegistry
           /\ Lookup(terminals', id)
           /\ lock' = NoThread
           /\ closed' = closed]_vars

\* C7 witness: write_all failed after a part of the payload was written.
C7_Witness ==
    /\ ret.op = "write" /\ ret.res = "WriteFailed"
    /\ Lookup(terminals, ret.id)
    /\ input[terminals[ret.id]] # <<>>
    /\ lock = NoThread

\* C8: a close changes no reader thread's state, no child and no event, and a
\* reader thread waiting for an exited child can emit terminal:exit whether
\* or not its id is registered.
C8_CloseLeavesReader ==
    /\ [][\A id \in Ids : Returns("close", id) =>
            /\ rstate' = rstate /\ waitres' = waitres
            /\ child' = child /\ out' = out
            /\ events' = events]_vars
    /\ [](\A s \in Sessions :
            (rstate[s] = "AwaitingExit" /\ child[s] = "exited")
            => ENABLED (ReaderWait(s, TRUE, 0, TRUE) /\ Len(events') = Len(events) + 1))

\* C8 witness: the id of a session was closed and is not registered, its child
\* has exited and its reader thread is about to emit terminal:exit.
C8_Witness ==
    \E s \in Sessions :
        /\ sid[s] \in closed /\ WriterOf(s) = "dropped"
        /\ rstate[s] = "AwaitingExit" /\ child[s] = "exited"
        /\ EventsOf(s, "data") # {}

\* C9: while a write is in progress its session's input is what it was when
\* the write started followed by the bytes written so far, the session is the
\* one registered for the id, and at most one write is in progress.
C9_WritesContiguous ==
    \A t \in Threads : pc[t] = "writing" =>
        LET c == call[t] IN
        /\ lock = t
        /\ Lookup(terminals, c.id) /\ terminals[c.id] = c.s
        /\ Len(input[c.s]) = c.start + c.pos
        /\ SubSeq(input[c.s], c.start + 1, c.start + c.pos) = Take(c.data, c.pos)

\* C9 witness: a second write to a session has delivered all its bytes after
\* the bytes of the first.
C9_Witness ==
    \E t \in Threads :
        /\ pc[t] = "writing"
        /\ call[t].start > 0
        /\ call[t].pos = Len(call[t].data) /\ call[t].pos = 2

\* C10: resize returns Ok for every id, registered or not, and changes nothing:
\* not the registry, not a session's input, not a reader thread, not the lock.
C10_ResizeIsNoOp ==
    [][\A id \in Ids : Returns("resize", id) =>
        /\ ret'.res = "Ok"
        /\ SameRegistry /\ lock' = lock /\ closed' = closed
        /\ input' = input /\ rstate' = rstate /\ events' = events
        /\ pc' = pc /\ call' = call]_vars

\* C10 witness: a resize of an id that was never created returned, while
\* another id was registered.
C10_Witness ==
    /\ ret.op = "resize"
    /\ ~Lookup(terminals, ret.id)
    /\ \A s \in Sessions : sid[s] # ret.id
    /\ terminals # <<>>

\* C11: a create that returns Ok returns the id it was given and leaves the id
\* registered with the writer of the PTY that this call opened; an entry stays
\* until a close of its id succeeds, and a write that finds the entry does
\* not return the not-found error.
C11_CreateRegistersId ==
    /\ [][\A id \in Ids : (Returns("create", id) /\ ret'.res = "Ok") =>
            \E t \in Threads :
                /\ pc[t] = "inserting" /\ pc'[t] = "idle" /\ call[t].id = id
                /\ ret'.val = id
                /\ Lookup(terminals', id) /\ terminals'[id] = call[t].s
                /\ sid[call[t].s] = id]_vars
    /\ [][\A id \in Ids :
            (Lookup(terminals, id) /\ ~(Returns("close", id) /\ ret'.res = "Ok"))
            => Lookup(terminals', id)]_vars
    /\ [][\A id \in Ids :
            (Returns("write", id) /\ ret'.res = "NotFound") => ~Lookup(terminals, id)]_vars

\* C11 witness: a write to a created id returned Ok and its bytes are on the
\* input of the session that the create opened.
C11_Witness ==
    /\ ret.op = "write" /\ ret.res = "Ok"
    /\ Lookup(terminals, ret.id)
    /\ sid[terminals[ret.id]] = ret.id
    /\ input[terminals[ret.id]] = <<"x", "y">>

\* C12: an entry leaves the registry only in a close of its id that returns
\* Ok; no step of a reader thread or of a child (a read, a chunk printed, an
\* exit, the wait, an emit) changes the registry, so the entry of a session
\* whose child has exited and whose reader thread has ended stays.
C12_OnlyCloseRemoves ==
    /\ [][\A id \in Ids :
            (Lookup(terminals, id) /\ ~Lookup(terminals', id))
            => (Returns("close", id) /\ ret'.res = "Ok")]_vars
    /\ [][(\/ rstate' # rstate \/ child' # child \/ waitres' # waitres
           \/ out' # out \/ events' # events)
          => SameRegistry]_vars

\* C12 witness: the child of a registered session has exited and its reader
\* thread has emitted terminal:exit and ended; the entry is still there.
C12_Witness ==
    \E id \in DOMAIN terminals :
        LET s == terminals[id] IN
        /\ child[s] = "exited" /\ rstate[s] = "Exited"
        /\ EventsOf(s, "exit") # {}
        /\ id \notin closed

\* C13: a reader thread's position changes only from not started to Reading
\* (when its session is created), from Reading to AwaitingExit (on Ok(0) or
\* Err: a step that emits nothing and consumes nothing) and from AwaitingExit
\* to Exited; a session that has a thread never gets another.
C13_ReaderStateMachine ==
    [][\A s \in Sessions :
        /\ rstate'[s] # rstate[s] =>
            \/ /\ rstate[s] = "NotStarted" /\ rstate'[s] = "Reading"
               /\ nsess = s - 1 /\ nsess' = s
            \/ /\ rstate[s] = "Reading" /\ rstate'[s] = "AwaitingExit"
               /\ events' = events /\ out' = out /\ child' = child
            \/ /\ rstate[s] = "AwaitingExit" /\ rstate'[s] = "Exited"
        /\ (rstate[s] = "Reading" /\ (events' # events \/ out'[s] # out[s]))
            => rstate'[s] = "Reading"
        /\ s <= nsess => (sid'[s] = sid[s] /\ nsess' >= nsess)]_vars

\* C13 witness: one reader thread has ended after a failed wait, having left
\* its loop while its child was running (a read error), and another is Reading.
C13_Witness ==
    \E s, s2 \in Sessions :
        /\ rstate[s] = "Exited" /\ waitres[s] = "err" /\ out[s] # <<>>
        /\ rstate[s2] = "Reading"

\* C14: a session's unread output changes only by the child printing a byte
\* at its end or by a read taking n > 0 bytes from its front; such a read
\* appends exactly one terminal:data event, of that session and id, whose text
\* is the lossy decoding of exactly those n bytes, and leaves the thread
\* Reading; events are only ever appended, one at a time, and a data event is
\* appended only by such a read.
C14_OneDataEventPerRead ==
    [][/\ Len(events') \in {Len(events), Len(events) + 1}
       /\ SubSeq(events', 1, Len(events)) = events
       /\ \A s \in Sessions :
            /\ out'[s] # out[s] =>
                \/ /\ \E b \in OutBytes : out'[s] = Append(out[s], b)
                   /\ events' = events
                \/ \E n \in 1..Len(out[s]) :
                    /\ out'[s] = SubSeq(out[s], n + 1, Len(out[s]))
                    /\ Len(events') = Len(events) + 1
                    /\ LET e == events'[Len(events')] IN
                        /\ e.kind = "data" /\ e.s = s /\ e.id = sid[s]
                        /\ e.text = Utf8Lossy(SubSeq(out[s], 1, n))
                        /\ e.text # <<>>
                    /\ rstate[s] = "Reading" /\ rstate'[s] = "Reading"
            /\ (/\ Len(events') = Len(events) + 1
                /\ events'[Len(events')].kind = "data"
                /\ events'[Len(events')].s = s)
               => Len(out'[s]) < Len(out[s])]_vars

\* C14 witness: two children printed the two bytes of U+00E9; one session read
\* them one at a time (two events, each the replacement character, in read
\* order), the other at once (one event, the character), and both threads
\* are still Reading.
C14_Witness ==
    \E s, s2 \in Sessions :
        /\ rstate[s] = "Reading" /\ produced[s] = 2 /\ out[s] = <<>>
        /\ \E i, j \in EventsOf(s, "data") :
            /\ i < j
            /\ events[i].text = <<65533>> /\ events[j].text = <<65533>>
        /\ rstate[s2] = "Reading"
        /\ \E i \in EventsOf(s2, "data") : events[i].text = <<233>>

\* An emit of terminal:data for session s was not delivered.
DataLost(s) == \E i \in EventsOf(s, "data") : ~events[i].ok

\* C15: an emit of terminal:data that fails is one call of emit like any
\* other: the chunk is consumed and is not emitted again, the reader thread
\* stays Reading, and nothing else changes; afterwards the thread can read
\* the next chunk, and once it waits for its exited child it can emit
\* terminal:exit, of which it has emitted one when it has ended after a wait
\* that returned Ok.
C15_EmitFailureSwallowed ==
    /\ [][\A s \in Sessions :
            (/\ Len(events') = Len(events) + 1
             /\ events'[Len(events')].kind = "data"
             /\ events'[Len(events')].s = s
             /\ ~events'[Len(events')].ok)
            => /\ events' = Append(events, events'[Len(events')])
               /\ rstate[s] = "Reading" /\ rstate' = rstate
               /\ Len(out'[s]) < Len(out[s])
               /\ events'[Len(events')].text
                    = Utf8Lossy(SubSeq(out[s], 1, Len(out[s]) - Len(out'[s])))
               /\ \A s2 \in Sessions \ {s} : out'[s2] = out[s2]
               /\ child' = child /\ waitres' = waitres
               /\ SameRegistry /\ lock' = lock /\ pc' = pc /\ input' = input]_vars
    /\ [](\A s \in Sessions : DataLost(s) =>
            /\ (rstate[s] = "Reading" /\ out[s] # <<>>)
                => ENABLED (ReaderRead(s, 1, TRUE) /\ Len(events') = Len(events) + 1)
            /\ (rstate[s] = "AwaitingExit" /\ child[s] = "exited")
                => ENABLED (ReaderWait(s, TRUE, 0, TRUE) /\ Len(events') = Len(events) + 1)
            /\ (rstate[s] = "Exited" /\ waitres[s] = "ok")
                => Cardinality(EventsOf(s, "exit")) = 1)

\* C15 witness: a session's first terminal:data was not delivered, its second
\* was, and its terminal:exit followed.
C15_Witness ==
    \E s \in Sessions : \E i, j \in EventsOf(s, "data"), k \in EventsOf(s, "exit") :
        /\ i < j /\ j < k
        /\ ~events[i].ok /\ events[j].ok /\ events[k].ok

\* C16: the step in which the reader thread of a session leaves its loop, on
\* Ok(0) or on Err, changes nothing but that thread's position: not the
\* registry, the lock or a call in progress, not an event, not the position,
\* child, output, input or writer of another session; and with one reader
\* thread out of its loop, a write and a close on the registered id of another
\* session are served as ever: the write finds its entry, the close returns Ok.
C16_SessionsIsolated ==
    /\ [][\A s \in Sessions :
            (rstate[s] = "Reading" /\ rstate'[s] = "AwaitingExit")
            => /\ SameRegistry /\ lock' = lock /\ pc' = pc /\ call' = call
               /\ events' = events /\ closed' = closed
               /\ child' = child /\ out' = out /\ input' = input
               /\ waitres' = waitres
               /\ \A s2 \in Sessions \ {s} :
                    /\ rstate'[s2] = rstate[s2]
                    /\ WriterOf(s2)' = WriterOf(s2)]_vars
    /\ [](\A s \in Sessions : rstate[s] \in {"AwaitingExit", "Exited"} =>
            \A t \in Threads, id \in DOMAIN terminals :
                (/\ terminals[id] # s /\ pc[t] = "idle" /\ lock = NoThread
                 /\ ncalls < budget.calls)
                => /\ ENABLED (WriteBegin(t, id, <<"p">>) /\ pc'[t] = "writing")
                   /\ ENABLED (Close(t, id) /\ ret'.res = "Ok"))

\* C16 witness: the reader thread of one session left its loop on a read
\* error (its child is running), and a write to the id of another session,
\* whose thread is Reading, has just returned Ok.
C16_Witness ==
    \E s, s2 \in Sessions :
        /\ s # s2
        /\ rstate[s] = "AwaitingExit" /\ child[s] = "running"
        /\ rstate[s2] = "Reading"
        /\ ret.op = "write" /\ ret.res = "Ok"
        /\ Lookup(terminals, ret.id) /\ terminals[ret.id] = s2
        /\ input[s2] # <<>> /\ input[s] = <<>>

\* C17: while a write to id is in progress no close returns and the entry it
\* found stays; the write's position moves only by its own bytes, it ends only
\* by returning its own result, Ok only after all its bytes were delivered;
\* it can always take its next step, and a close of its id cannot be served
\* before it has returned.
C17_CloseWaitsForWrite ==
    /\ [][\A t \in Threads : pc[t] = "writing" =>
            LET c == call[t] IN
            /\ ret'.op # "close"
            /\ Lookup(terminals', c.id) /\ terminals'[c.id] = c.s
            /\ \/ /\ pc'[t] = "writing"
                  /\ call'[t] \in {c, [c EXCEPT !.pos = c.pos + 1]}
                  /\ call'[t].pos = c.pos + 1 =>
                        input'[c.s] = Append(input[c.s], c.data[c.pos + 1])
               \/ /\ pc'[t] = "idle"
                  /\ Returns("write", c.id)
                  /\ ret'.res \in {"Ok"} \cup IoErrors
                  /\ ret'.res = "Ok" =>
                        /\ c.pos = Len(c.data)
                        /\ SubSeq(input[c.s], c.start + 1, c.start + c.pos) = c.data]_vars
    /\ [](\A t \in Threads : pc[t] = "writing" =>
            /\ ENABLED (WriteByte(t) \/ WriteFlush(t, TRUE))
            /\ \A u \in Threads : ~ENABLED Close(u, call[t].id))

\* C17 witness: a write has delivered the first of its two bytes; another
\* thread is free to call close, calls are left, and close cannot be served.
C17_Witness ==
    \E t, u \in Threads :
        /\ pc[t] = "writing" /\ call[t].pos = 1 /\ Len(call[t].data) = 2
        /\ pc[u] = "idle" /\ ncalls < budget.calls
        /\ ~ENABLED Close(u, call[t].id)
        /\ Lookup(terminals, call[t].id)

\* C18: a thread that is in a write holds the Mutex; until its write returns
\* the registry does not change, no other write starts, no write or close of
\* another thread returns and no create registers its session, and none of
\* these steps can be taken.
C18_LockHeldOverWrite ==
    /\ [][\A t \in Threads : pc[t] = "writing" =>
            /\ lock = t
            /\ SameRegistry
            /\ ret'.op \in {"write", "close"} =>
                (pc'[t] = "idle" /\ Returns("write", call[t].id))
            /\ \A u \in Threads \ {t} :
                /\ pc'[u] # "writing"
                /\ pc[u] = "inserting" => pc'[u] = "inserting"]_vars
    /\ [](\A t \in Threads : pc[t] = "writing" =>
            \A u \in Threads \ {t} :
                /\ ~ENABLED CreateInsert(u)
                /\ \A id \in Ids :
                    /\ ~ENABLED Close(u, id)
                    /\ \A data \in Payloads : ~ENABLED WriteBegin(u, id, data))

\* C18 witness: a write to one session has delivered the first of its two
\* bytes while a create of another id has its session ready to register.
C18_Witness ==
    \E t, u \in Threads :
        /\ pc[t] = "writing" /\ call[t].pos = 1 /\ Len(call[t].data) = 2
        /\ pc[u] = "inserting" /\ call[u].id # call[t].id
        /\ ~Lookup(terminals, call[u].id)

Started(s) == rstate[s] \in {"Reading", "AwaitingExit", "Exited"}

\* C19: the session of every registered id, and the session that a create is
\* about to register, has a reader thread that was started; before its create
\* has registered it, that thread can emit terminal:data for output that is
\* there and terminal:exit for a child that has exited.
C19_ReaderStartedBeforeInsert ==
    /\ \A id \in DOMAIN terminals : Started(terminals[id])
    /\ \A t \in Threads : pc[t] = "inserting" =>
        LET s == call[t].s IN
        /\ Started(s)
        /\ sid[s] = call[t].id
        /\ (rstate[s] = "Reading" /\ out[s] # <<>>)
            => ENABLED (ReaderRead(s, 1, TRUE) /\ Len(events') = Len(events) + 1)
        /\ (rstate[s] = "AwaitingExit" /\ child[s] = "exited")
            => ENABLED (ReaderWait(s, TRUE, 0, TRUE) /\ Len(events') = Len(events) + 1)

\* C19 witness: terminal:data and terminal:exit were emitted for an id that
\* has never been registered and whose create has not yet inserted it.
C19_Witness ==
    \E t \in Threads :
        /\ pc[t] = "inserting" /\ ~call[t].seen
        /\ ~Lookup(terminals, call[t].id) /\ call[t].id \notin closed
        /\ \A s \in Sessions : sid[s] = call[t].id => s = call[t].s
        /\ EventsOf(call[t].s, "data") # {} /\ EventsOf(call[t].s, "exit") # {}
        /\ \A i \in 1..Len(events) : events[i].s = call[t].s => events[i].id = call[t].id

\* C20: a create that returns an error changes neither the registry nor the
\* lock, opens no session and starts no reader thread; sessions are opened
\* only by creates that go on to register and return Ok, and every event is
\* emitted by the reader thread of such a session, for the id of its create.
C20_FailedCreateLeavesNothing ==
    /\ [][\A id \in Ids :
            (Returns("create", id) /\ ret'.res \in CreateErrors)
            => /\ SameRegistry /\ lock' = lock /\ closed' = closed
               /\ nsess' = nsess /\ sid' = sid /\ rstate' = rstate /\ child' = child
               /\ events' = events /\ pc' = pc /\ call' = call]_vars
    /\ [][/\ nsess' # nsess =>
                \E t \in Threads :
                    /\ pc[t] = "idle" /\ pc'[t] = "inserting"
                    /\ call'[t].s = nsess' /\ call'[t].id = sid'[nsess']
                    /\ ret' = NoResult
          /\ \A t \in Threads : (pc[t] = "inserting" /\ pc'[t] # "inserting")
                => (Returns("create", call[t].id) /\ ret'.res = "Ok")]_vars
    /\ [](\A i \in 1..Len(events) :
            /\ events[i].s \in 1..nsess
            /\ Started(events[i].s)
            /\ events[i].id = sid[events[i].s])

\* C20 witness: a create of an id has just failed; no session was ever opened
\* for the id, it is not registered and no event carries it, while events of
\* another id have been emitted.
C20_Witness ==
    /\ ret.op = "create" /\ ret.res \in CreateErrors
    /\ \A s \in Sessions : sid[s] # ret.id
    /\ ~Lookup(terminals, ret.id)
    /\ events # <<>>
    /\ \A i \in 1..Len(events) : events[i].id # ret.id

====
